---- MODULE Spec2Model ----
(***************************************************************************)
(* Model of liquidctl/driver/asetek.py: the USB driver for fifth          *)
(* generation Asetek coolers (AsetekDriver).                               *)
(*                                                                         *)
(* The driver is single threaded.  A public operation is modelled as an    *)
(* entry action (the code up to its first transport call) followed by one  *)
(* action per helper call (_open, _close, _begin_transaction, _write,      *)
(* _end_transaction_and_read); pc is the position inside the operation.    *)
(* Every transport call may raise usb.core.USBError; the outcome of each   *)
(* call is chosen by the environment.  calls is the log of the transport   *)
(* calls made by the operation in progress (or just finished).             *)
(***************************************************************************)
EXTENDS Integers, Sequences, FiniteSets, TLC

VARIABLES
    dry_run,     \* self.dry_run
    data_file,   \* contents of profile.yaml: the persisted lighting frame
    attached,    \* transport attached by BaseUsbDriver.connect
    op,          \* public operation in progress or last finished
    pc,          \* position inside the operation
    channel,     \* channel argument of the operation ("" when it has none)
    mode,        \* mode argument of set_color ("" otherwise)
    speed,       \* speed argument of set_fixed_speed (0 otherwise)
    out,         \* frames the operation still has to pass to _write
    calls,       \* transport calls of the operation, in order
    result,      \* "none" while running, then "ok" or the exception raised
    open_ok,     \* outcomes the transport gives to the opens of a connect
    delivered,   \* last lighting frame the device received from set_color
    args,        \* further arguments of the operation (<<>> when it has none)
    ret          \* value the operation returned (<<>> when it returns none)

vars == <<dry_run, data_file, attached, op, pc, channel, mode, speed, out,
          calls, result, open_ok, delivered, args, ret>>

----------------------------------------------------------------------------
(* Module constants of asetek.py *)

_MAX_PROFILE_POINTS == 6
_CRITICAL_TEMPERATURE == 60

\* _FIXED_SPEED_CHANNELS: channel -> (message type, minimum duty, maximum duty)
_FIXED_SPEED_CHANNELS ==
    [c \in {"fan", "pump"} |->
        IF c = "fan" THEN <<18, 30, 100>> ELSE <<19, 30, 100>>]

\* _VARIABLE_SPEED_CHANNELS
_VARIABLE_SPEED_CHANNELS == [c \in {"fan"} |-> <<17, 30, 100>>]

DEFAULT_COLOR_STATE ==
    <<16, 0, 0, 0, 0, 0, 0, 255, 0, 0, 55, 0, 0, 0, 0, 0, 1, 0, 1>>

\* modes tuple of set_color
modes == {"fixed", "alternating", "blinking", "off"}

\* speeds dict of set_color
speeds == [s \in {"fastest", "faster", "normal", "slower", "slowest"} |->
              CASE s = "fastest" -> 1
                [] s = "faster"  -> 2
                [] s = "normal"  -> 3
                [] s = "slower"  -> 4
                [] s = "slowest" -> 5]

----------------------------------------------------------------------------
(* Values returned by the pure parts: either a value or the exception *)

Ok(v) == [err |-> "", val |-> v]
Raise(e) == [err |-> e, val |-> <<>>]

----------------------------------------------------------------------------
(* set_color, lines 243-290: the frame built from mode, colors and speed.  *)
(* A speed argument is [kind, n, s]: an integer n ("int"), a string that   *)
(* int() parses to n ("numstr"), any other string s ("name"), or None.     *)

IntSpeed(n) == [kind |-> "int", n |-> n, s |-> ""]
NumStrSpeed(n) == [kind |-> "numstr", n |-> n, s |-> ""]
NameSpeed(s) == [kind |-> "name", n |-> 0, s |-> s]
NoneSpeed == [kind |-> "none", n |-> 0, s |-> ""]

\* lines 251-263: int(speed), the named levels, the coercion to 1
set_color_speed(spd) ==
    CASE spd.kind = "none" -> Raise("TypeError")
      [] spd.kind = "name" ->
            IF spd.s \notin DOMAIN speeds THEN Ok(1) ELSE Ok(speeds[spd.s])
      [] OTHER ->
            IF spd.n < 1 \/ spd.n > 255 THEN Ok(1) ELSE Ok(spd.n)

\* color1 and color2 unpacked from colors whatever the mode is
set_color_colors_any_mode(m, colors) ==
    IF Len(colors) = 0 THEN Raise("ValueError")
    ELSE Ok(<<colors[1],
              IF Len(colors) > 1 THEN colors[2] ELSE <<0, 0, 0>>>>)

\* lines 271-277: color1 and color2
set_color_colors(m, colors) ==
    IF m = "off" THEN Ok(<<<<0, 0, 0>>, <<0, 0, 0>>>>)
    ELSE IF Len(colors) = 0 THEN Raise("ValueError")
    ELSE Ok(<<colors[1],
              IF Len(colors) > 1 THEN colors[2] ELSE <<0, 0, 0>>>>)

\* the frame with the alternating and blinking flags in each other's place
set_color_data_flags_swapped(m, color1, color2, spd) ==
    <<16>> \o color1 \o color2 \o
    <<255, 0, 0, 55,
      spd,
      spd,
      IF m = "off" THEN 0 ELSE 1,
      IF m = "blinking" THEN 1 ELSE 0,
      IF m = "alternating" THEN 1 ELSE 0,
      1, 0, 1>>

\* lines 280-289: the 19 byte frame
set_color_data(m, color1, color2, spd) ==
    <<16>> \o color1 \o color2 \o
    <<255, 0, 0, 55,
      spd,
      spd,
      IF m = "off" THEN 0 ELSE 1,
      IF m = "alternating" THEN 1 ELSE 0,
      IF m = "blinking" THEN 1 ELSE 0,
      1, 0, 1>>

\* lines 243-290 in order: speed, mode, colors, frame
set_color_frame(m, colors, spd) ==
    LET sp == set_color_speed(spd)
        cs == set_color_colors(m, colors)
    IN  IF sp.err # "" THEN sp
        ELSE IF m \notin modes THEN Raise("NotImplementedError")
        ELSE IF cs.err # "" THEN cs
        ELSE Ok(set_color_data(m, cs.val[1], cs.val[2], sp.val))

----------------------------------------------------------------------------
(* _send_fixed_speed, lines 189-195: the frame for one channel *)

\* the clamp without its upper bound
fixed_speed_clamp_low_only(s, smin, smax) ==
    IF s < smin THEN smin ELSE s

fixed_speed_clamp(s, smin, smax) ==
    IF s < smin THEN smin ELSE IF s > smax THEN smax ELSE s

fixed_speed_frame(ch, s) ==
    LET t == _FIXED_SPEED_CHANNELS[ch]
    IN  <<t[1], fixed_speed_clamp(s, t[2], t[3])>>

----------------------------------------------------------------------------
(* Profiles: sequences of <<temperature, duty>> pairs.                     *)
(* liquidctl.util.normalize_profile and autofill_profile are not part of   *)
(* asetek.py; they follow the ProfileProcessor contract.                   *)

RECURSIVE SortedSeq(_)
SortedSeq(S) ==
    IF S = {} THEN <<>>
    ELSE LET m == CHOOSE x \in S : \A y \in S : x <= y
         IN  <<m>> \o SortedSeq(S \ {m})

\* duty of the last point of profile at temperature t
LastDutyAt(profile, t) ==
    LET i == CHOOSE j \in DOMAIN profile :
                 /\ profile[j][1] = t
                 /\ \A k \in DOMAIN profile : profile[k][1] = t => k <= j
    IN  profile[i][2]

normalize_profile(profile, critx) ==
    IF \/ Len(profile) = 0
       \/ \E i \in DOMAIN profile : profile[i][1] < 0 \/ profile[i][2] < 0
    THEN Raise("InvalidProfile")
    ELSE LET temps == SortedSeq({profile[i][1] : i \in DOMAIN profile} \cup {critx})
         IN  Ok([i \in DOMAIN temps |->
                    IF \E j \in DOMAIN profile : profile[j][1] = temps[i]
                    THEN <<temps[i], LastDutyAt(profile, temps[i])>>
                    ELSE <<temps[i], 100>>])

\* a profile left as short as it is
autofill_profile_no_fill(norm, max_points) ==
    IF Len(norm) > max_points THEN Raise("ProfileTooLarge") ELSE Ok(norm)

autofill_profile(norm, max_points) ==
    IF Len(norm) > max_points THEN Raise("ProfileTooLarge")
    ELSE Ok([i \in 1..max_points |->
                IF i <= Len(norm) THEN norm[i] ELSE norm[Len(norm)]])

\* the clamp without its upper bound
clamp_duty_low_only(duty, min_duty, max_duty) ==
    IF duty < min_duty THEN min_duty ELSE duty

\* lines 165-168: one duty of the autofilled profile
clamp_duty(duty, min_duty, max_duty) ==
    IF duty < min_duty THEN min_duty
    ELSE IF duty > max_duty THEN max_duty
    ELSE duty

\* lines 164-169: the clamp pass over the autofilled profile opt
prepare_profile_clamp(opt, min_duty, max_duty) ==
    [i \in DOMAIN opt |->
        <<opt[i][1], clamp_duty(opt[i][2], min_duty, max_duty)>>]

\* _prepare_profile, lines 161-169
_prepare_profile(profile, min_duty, max_duty) ==
    LET norm == normalize_profile(profile, _CRITICAL_TEMPERATURE)
        opt == IF norm.err # "" THEN norm
               ELSE autofill_profile(norm.val, _MAX_PROFILE_POINTS)
    IN  IF opt.err # "" THEN opt
        ELSE Ok(prepare_profile_clamp(opt.val, min_duty, max_duty))

\* the frame with the duties before the temperatures
speed_profile_frame_duties_first(ch, profile) ==
    IF ch \notin DOMAIN _VARIABLE_SPEED_CHANNELS THEN Raise("KeyError")
    ELSE LET t == _VARIABLE_SPEED_CHANNELS[ch]
             opt == _prepare_profile(profile, t[2], t[3])
         IN  IF opt.err # "" THEN opt
             ELSE Ok(<<t[1], 0>>
                     \o [i \in DOMAIN opt.val |-> opt.val[i][2]]
                     \o [i \in DOMAIN opt.val |-> opt.val[i][1]])

\* set_speed_profile, lines 150-158: the frame passed to _write
speed_profile_frame(ch, profile) ==
    IF ch \notin DOMAIN _VARIABLE_SPEED_CHANNELS THEN Raise("KeyError")
    ELSE LET t == _VARIABLE_SPEED_CHANNELS[ch]
             opt == _prepare_profile(profile, t[2], t[3])
         IN  IF opt.err # "" THEN opt
             ELSE Ok(<<t[1], 0>>
                     \o [i \in DOMAIN opt.val |-> opt.val[i][1]]
                     \o [i \in DOMAIN opt.val |-> opt.val[i][2]])

----------------------------------------------------------------------------
(* get_status, lines 140-146: the report decoded from the response msg.    *)
(* Python indexes from 0: msg[k] is the element k + 1 of the sequence.      *)

At(msg, k) == msg[k + 1]

\* msg[a:b], a slice that stops at the end of msg
Slice(msg, a, b) ==
    SubSeq(msg, a + 1, IF b < Len(msg) THEN b ELSE Len(msg))

\* a | b on naturals
RECURSIVE BitOr(_, _)
BitOr(a, b) ==
    IF a = 0 THEN b
    ELSE IF b = 0 THEN a
    ELSE (IF a % 2 = 1 \/ b % 2 = 1 THEN 1 ELSE 0)
         + 2 * BitOr(a \div 2, b \div 2)

\* a << 8
Shl8(a) == a * 256

\* the report with pump and fan speed read from each other's offsets
get_status_report_swapped(msg) ==
    LET firmware == Slice(msg, 23, 27)
    IN  IF Len(firmware) < 4 THEN Raise("IndexError")
        ELSE Ok(<< <<"Liquid temperature", 10 * At(msg, 10) + At(msg, 14), "C">>,
                   <<"Fan speed", BitOr(Shl8(At(msg, 8)), At(msg, 9)), "rpm">>,
                   <<"Pump speed", BitOr(Shl8(At(msg, 0)), At(msg, 1)), "rpm">>,
                   <<"Firmware version", firmware, "">> >>)

\* lines 140-146; '{}.{}.{}.{}'.format(...) raises IndexError when the slice
\* has fewer than four elements; the temperature msg[10] + msg[14] / 10 is
\* kept in tenths of a degree
get_status_report(msg) ==
    LET firmware == Slice(msg, 23, 27)
    IN  IF Len(firmware) < 4 THEN Raise("IndexError")
        ELSE Ok(<< <<"Liquid temperature", 10 * At(msg, 10) + At(msg, 14), "C">>,
                   <<"Fan speed", BitOr(Shl8(At(msg, 0)), At(msg, 1)), "rpm">>,
                   <<"Pump speed", BitOr(Shl8(At(msg, 8)), At(msg, 9)), "rpm">>,
                   <<"Firmware version", firmware, "">> >>)

----------------------------------------------------------------------------
(* Inputs of the public operations *)

RED == <<255, 0, 0>>
GREEN == <<0, 255, 0>>
BLUE == <<0, 0, 255>>

Channels == {"fan", "pump", "sync", "logo"}
ModeArgs == modes \cup {"rainbow"}
ColorArgs == {<<>>, <<RED>>, <<RED, BLUE, GREEN>>}
ColorSpeedArgs == {NameSpeed("slowest"), NoneSpeed}
FixedSpeedArgs == {10, 50, 150}
ProfileArgs ==
    { <<>>,
      <<<<20, 20>>, <<40, 50>>>>,
      <<<<50, 90>>, <<30, 40>>, <<30, 120>>>>,
      <<<<20, 0 - 5>>>>,
      <<<<20, 30>>, <<25, 35>>, <<30, 40>>, <<35, 50>>, <<40, 60>>,
        <<45, 70>>, <<50, 80>>>> }

\* a response of n bytes whose byte at offset i is (7 * i + 13 * v) % 256
Msg(n, v) == [i \in 1..n |-> (7 * (i - 1) + 13 * v) % 256]

\* responses of the device: a full frame and one cut short
Responses == {Msg(32, 1), Msg(26, 1)}

\* exceptions raised before the transport is touched
CallerErrors == {"NotImplementedError", "KeyError", "ValueError", "TypeError",
                 "InvalidProfile", "ProfileTooLarge"}

----------------------------------------------------------------------------
(* State machine *)

Call(req, data, ok) == [req |-> req, data |-> data, ok |-> ok]

Init ==
    /\ dry_run \in BOOLEAN
    /\ data_file = DEFAULT_COLOR_STATE      \* __init__, lines 102-104
    /\ attached = FALSE
    /\ op = "__init__"
    /\ pc = "done"
    /\ channel = ""
    /\ mode = ""
    /\ speed = 0
    /\ out = <<>>
    /\ calls = <<>>
    /\ result = "ok"
    /\ open_ok = <<TRUE, TRUE>>
    /\ delivered = DEFAULT_COLOR_STATE
    /\ args = <<>>
    /\ ret = <<>>

\* a public operation is called with the given arguments
EnterWith(o, ch, m, s, a) ==
    /\ pc = "done"
    /\ op' = o
    /\ channel' = ch
    /\ mode' = m
    /\ speed' = s
    /\ args' = a
    /\ calls' = <<>>

Enter(o, ch, m, s) == EnterWith(o, ch, m, s, <<>>)

\* the operation returns v (res = "ok") or raises res
ReturnValue(res, v) ==
    /\ pc' = "done"
    /\ result' = res
    /\ out' = <<>>
    /\ ret' = v

\* the operation returns None (res = "ok") or raises res
Return(res) == ReturnValue(res, <<>>)

\* the operation goes on to position p with frames fs left to write
Goto(p, fs) ==
    /\ pc' = p
    /\ result' = "none"
    /\ out' = fs
    /\ ret' = <<>>

\* __init__, lines 99-105, in a later run: profile.yaml exists and is kept
__init__ ==
    /\ Enter("__init__", "", "", 0)
    /\ dry_run' \in BOOLEAN
    /\ attached' = FALSE
    /\ open_ok' = <<TRUE, TRUE>>
    /\ Return("ok")
    /\ UNCHANGED <<data_file, delivered>>

----------------------------------------------------------------------------
(* connect, lines 107-121, and disconnect, lines 123-130 *)

\* _open, lines 197-200: one clear-to-send control request
_open(ok) == calls' = Append(calls, Call("open", <<>>, ok))

\* _close, lines 202-205: one not-clear-to-send control request
_close(ok) == calls' = Append(calls, Call("close", <<>>, ok))

\* line 114: super().connect() attaches the transport; oks are the outcomes
\* the transport will give to the first and to the second open of this call
connect(oks) ==
    /\ Enter("connect", "", "", 0)
    /\ open_ok' = oks
    /\ attached' = TRUE
    /\ Goto("open", <<>>)
    /\ UNCHANGED <<dry_run, data_file, delivered>>

\* lines 115-117: the first self._open()
connect_open ==
    /\ pc = "open"
    /\ _open(open_ok[1])
    /\ IF open_ok[1] THEN Return("ok") ELSE Goto("close", <<>>)
    /\ UNCHANGED <<dry_run, data_file, attached, op, args, channel, mode,
                   speed, open_ok, delivered>>

\* the retry without the close request
connect_close_skipped ==
    /\ pc = "close"
    /\ Goto("reopen", <<>>)
    /\ UNCHANGED <<dry_run, data_file, attached, op, args, channel, mode,
                   speed, calls, open_ok, delivered>>

\* line 120: self._close() inside the except clause
connect_close ==
    /\ pc = "close"
    /\ \E ok \in BOOLEAN :
          /\ _close(ok)
          /\ IF ok THEN Goto("reopen", <<>>) ELSE Return("USBError")
    /\ UNCHANGED <<dry_run, data_file, attached, op, args, channel, mode,
                   speed, open_ok, delivered>>

\* a second open that, on failure, closes and retries again
connect_reopen_again ==
    /\ pc = "reopen"
    /\ _open(open_ok[2])
    /\ IF open_ok[2] THEN Return("ok") ELSE Goto("close", <<>>)
    /\ UNCHANGED <<dry_run, data_file, attached, op, args, channel, mode,
                   speed, open_ok, delivered>>

\* line 121: the second self._open()
connect_reopen ==
    /\ pc = "reopen"
    /\ _open(open_ok[2])
    /\ IF open_ok[2] THEN Return("ok") ELSE Return("USBError")
    /\ UNCHANGED <<dry_run, data_file, attached, op, args, channel, mode,
                   speed, open_ok, delivered>>

disconnect ==
    /\ Enter("disconnect", "", "", 0)
    /\ open_ok' = <<TRUE, TRUE>>
    /\ Goto("close_release", <<>>)
    /\ UNCHANGED <<dry_run, data_file, attached, delivered>>

\* lines 129-130: self._close(), then super().disconnect() releases the transport
disconnect_close ==
    /\ pc = "close_release"
    /\ \E ok \in BOOLEAN :
          /\ _close(ok)
          /\ IF ok THEN attached' = FALSE /\ Return("ok")
                   ELSE attached' = attached /\ Return("USBError")
    /\ UNCHANGED <<dry_run, data_file, op, args, channel, mode, speed,
                   open_ok, delivered>>

----------------------------------------------------------------------------
(* The public I/O operations up to their first transport call *)

\* get_status, line 137
get_status ==
    /\ Enter("get_status", "", "", 0)
    /\ open_ok' = <<TRUE, TRUE>>
    /\ Goto("begin", <<>>)
    /\ UNCHANGED <<dry_run, data_file, attached, delivered>>

\* set_fixed_speed, lines 173-180: which frames will be sent, or KeyError
set_fixed_speed_frames(ch, s) ==
    IF ch = "sync"
    THEN Ok(<<fixed_speed_frame("pump", s), fixed_speed_frame("fan", s)>>)
    ELSE IF ch \in DOMAIN _FIXED_SPEED_CHANNELS
    THEN Ok(<<fixed_speed_frame(ch, s)>>)
    ELSE Raise("KeyError")

set_fixed_speed(ch, s) ==
    /\ Enter("set_fixed_speed", ch, "", s)
    /\ open_ok' = <<TRUE, TRUE>>
    /\ LET fs == set_fixed_speed_frames(ch, s)
       IN  IF fs.err # "" THEN Return(fs.err) ELSE Goto("begin", fs.val)
    /\ UNCHANGED <<dry_run, data_file, attached, delivered>>

\* set_speed_profile, lines 150-155
set_speed_profile(ch, profile) ==
    /\ EnterWith("set_speed_profile", ch, "", 0, profile)
    /\ open_ok' = <<TRUE, TRUE>>
    /\ LET f == speed_profile_frame(ch, profile)
       IN  IF f.err # "" THEN Return(f.err) ELSE Goto("begin", <<f.val>>)
    /\ UNCHANGED <<dry_run, data_file, attached, delivered>>

\* set_color beginning its transaction before it checks the mode
set_color_flush_first(ch, m, colors, spd) ==
    /\ pc = "done"
    /\ op' = "set_color"
    /\ channel' = ch
    /\ mode' = m
    /\ speed' = 0
    /\ args' = <<colors, spd>>
    /\ open_ok' = <<TRUE, TRUE>>
    /\ calls' = <<Call("flush", <<>>, TRUE)>>
    /\ LET f == set_color_frame(m, colors, spd)
       IN  IF f.err # "" THEN Return(f.err) ELSE Goto("persist", <<f.val>>)
    /\ UNCHANGED <<dry_run, data_file, attached, delivered>>

\* set_color, lines 243-277
set_color(ch, m, colors, spd) ==
    /\ EnterWith("set_color", ch, m, 0, <<colors, spd>>)
    /\ open_ok' = <<TRUE, TRUE>>
    /\ LET f == set_color_frame(m, colors, spd)
       IN  IF f.err # "" THEN Return(f.err) ELSE Goto("begin", <<f.val>>)
    /\ UNCHANGED <<dry_run, data_file, attached, delivered>>

----------------------------------------------------------------------------
(* The transaction steps *)

\* where the operation goes after self._begin_transaction()
after_begin(o) ==
    CASE o = "get_status" -> "dummy"      \* line 138
      [] o = "set_color"  -> "persist"    \* line 290
      [] OTHER            -> "write"      \* lines 158, 175, 180

\* _begin_transaction, lines 207-210: one flush-buffers control request
_begin_transaction ==
    /\ pc = "begin"
    /\ \E ok \in BOOLEAN :
          /\ calls' = Append(calls, Call("flush", <<>>, ok))
          /\ IF ok THEN Goto(after_begin(op), out) ELSE Return("USBError")
    /\ UNCHANGED <<dry_run, data_file, attached, op, args, channel, mode,
                   speed, open_ok, delivered>>

\* set_color, line 290: data.to_yaml(filename=self.data_file)
set_color_persist ==
    /\ pc = "persist"
    /\ data_file' = Head(out)
    /\ Goto("write", out)
    /\ UNCHANGED <<dry_run, attached, op, args, channel, mode, speed, calls,
                   open_ok, delivered>>

\* a write whose transport error is swallowed
_write_unchecked(data, rest) ==
    IF dry_run
    THEN /\ Goto(IF rest = <<>> THEN "read" ELSE "write", rest)
         /\ UNCHANGED <<calls, delivered>>
    ELSE \E ok \in BOOLEAN :
          /\ calls' = Append(calls, Call("write", data, ok))
          /\ Goto(IF rest = <<>> THEN "read" ELSE "write", rest)
          /\ delivered' = IF ok /\ op = "set_color" THEN data ELSE delivered

\* _write, lines 235-239: data is written unless dry_run; rest are the
\* frames the operation writes after this one
_write(data, rest) ==
    IF dry_run
    THEN /\ Goto(IF rest = <<>> THEN "read" ELSE "write", rest)
         /\ UNCHANGED <<calls, delivered>>
    ELSE \E ok \in BOOLEAN :
          /\ calls' = Append(calls, Call("write", data, ok))
          /\ IF ok
             THEN /\ Goto(IF rest = <<>> THEN "read" ELSE "write", rest)
                  /\ delivered' = IF op = "set_color" THEN data ELSE delivered
             ELSE /\ Return("USBError")
                  /\ UNCHANGED delivered

\* a dummy command that turns the lighting off and persists that
_send_dummy_command_off ==
    /\ pc = "dummy"
    /\ _write(DEFAULT_COLOR_STATE, <<>>)
    /\ data_file' = DEFAULT_COLOR_STATE
    /\ UNCHANGED <<dry_run, attached, op, args, channel, mode, speed,
                   open_ok>>

\* _send_dummy_command, lines 226-233: the persisted frame is read and written
_send_dummy_command ==
    /\ pc = "dummy"
    /\ _write(data_file, <<>>)
    /\ UNCHANGED <<dry_run, data_file, attached, op, args, channel, mode,
                   speed, open_ok>>

\* self._write(...) of set_color (291), set_speed_profile (158) and
\* _send_fixed_speed (195)
send_frame ==
    /\ pc = "write"
    /\ _write(Head(out), Tail(out))
    /\ UNCHANGED <<dry_run, data_file, attached, op, args, channel, mode,
                   speed, open_ok>>

\* what a failed read becomes in the caller: set_fixed_speed catches it for
\* a single channel (lines 181-185), every other caller lets it propagate
read_failure(o, ch) ==
    IF o = "set_fixed_speed" /\ ch # "sync" THEN "ok" ELSE "USBError"

\* what the caller does with the response of a successful read: get_status
\* decodes it (lines 140-146), the others drop it
read_success(o, msg) ==
    IF o = "get_status"
    THEN LET r == get_status_report(msg)
         IN  IF r.err # "" THEN Return(r.err) ELSE ReturnValue("ok", r.val)
    ELSE Return("ok")

\* _end_transaction_and_read, lines 212-224: one read, then dispose_resources;
\* msgs are the responses the device may give
end_transaction_and_read(msgs) ==
    /\ pc = "read"
    /\ \E ok \in BOOLEAN, msg \in msgs :
          IF ok
          THEN /\ calls' = calls \o <<Call("read", msg, TRUE),
                                      Call("release", <<>>, TRUE)>>
               /\ read_success(op, msg)
          ELSE /\ calls' = Append(calls, Call("read", <<>>, FALSE))
               /\ Return(read_failure(op, channel))
    /\ UNCHANGED <<dry_run, data_file, attached, op, args, channel, mode,
                   speed, open_ok, delivered>>

_end_transaction_and_read == end_transaction_and_read(Responses)

----------------------------------------------------------------------------

Next ==
    \/ __init__
    \/ \E oks \in BOOLEAN \X BOOLEAN : connect(oks)
    \/ connect_open
    \/ connect_close
    \/ connect_reopen
    \/ disconnect
    \/ disconnect_close
    \/ get_status
    \/ \E ch \in Channels, s \in FixedSpeedArgs : set_fixed_speed(ch, s)
    \/ \E ch \in Channels, p \in ProfileArgs : set_speed_profile(ch, p)
    \/ \E m \in ModeArgs, cs \in ColorArgs, spd \in ColorSpeedArgs :
          set_color("logo", m, cs, spd)
    \/ _begin_transaction
    \/ set_color_persist
    \/ _send_dummy_command
    \/ send_frame
    \/ _end_transaction_and_read

Spec == Init /\ [][Next]_vars

TypeOK ==
    /\ dry_run \in BOOLEAN
    /\ attached \in BOOLEAN
    /\ Len(data_file) = 19
    /\ Len(delivered) = 19
    /\ pc \in {"done", "open", "close", "reopen", "close_release", "begin",
               "persist", "dummy", "write", "read"}
    /\ result \in {"none", "ok", "USBError", "IndexError"} \cup CallerErrors
    /\ (pc = "done") = (result # "none")

----------------------------------------------------------------------------
(* A single set_fixed_speed call on a freshly constructed driver, for      *)
(* every channel and every integer speed within MaxSpeedArg of zero        *)

MaxSpeedArg == 160

SpeedRange == (0 - MaxSpeedArg)..MaxSpeedArg

NextFixedSpeed ==
    \/ /\ op = "__init__"
       /\ \E ch \in Channels, s \in SpeedRange : set_fixed_speed(ch, s)
    \/ _begin_transaction
    \/ send_frame
    \/ _end_transaction_and_read

SpecFixedSpeed == Init /\ [][NextFixedSpeed]_vars

----------------------------------------------------------------------------
(* A single set_color call on a freshly constructed driver: every mode     *)
(* with every list of up to MaxColors colors, and every integer speed from *)
(* -2 to MaxColorSpeed                                                     *)

MaxColors == 3
MaxColorSpeed == 257

ColorLists ==
    UNION {[1..n -> {RED, GREEN, BLUE}] : n \in 0..MaxColors}

SpeedArgsFew ==
    {IntSpeed(0), IntSpeed(7), NumStrSpeed(9), NameSpeed("normal"),
     NameSpeed("warp"), NoneSpeed}

SpeedArgsWide ==
    {IntSpeed(n) : n \in (0 - 2)..MaxColorSpeed}
    \cup {NumStrSpeed(n) : n \in {0, 1, 255, 256}}
    \cup {NameSpeed(x) : x \in DOMAIN speeds \cup {"warp", ""}}
    \cup {NoneSpeed}

ColorCalls ==
    ({"logo", "ring"} \X ModeArgs \X ColorLists \X SpeedArgsFew)
    \cup ({"logo"} \X {"fixed", "off"} \X {<<RED>>} \X SpeedArgsWide)

NextColor ==
    \/ /\ op = "__init__"
       /\ \E c \in ColorCalls : set_color(c[1], c[2], c[3], c[4])
    \/ _begin_transaction
    \/ set_color_persist
    \/ send_frame
    \/ _end_transaction_and_read

SpecColor == Init /\ [][NextColor]_vars

----------------------------------------------------------------------------
(* The clamp pass of _prepare_profile on its own: every table of up to     *)
(* MaxClampPoints points and every pair of bounds min_duty <= max_duty     *)

MaxClampPoints == 2

ClampDuties == {0 - 5, 0, 29, 30, 31, 99, 100, 101, 250}
ClampPoints == {20, 60} \X ClampDuties
ClampTables == UNION {[1..n -> ClampPoints] : n \in 0..MaxClampPoints}
ClampBounds == {b \in {0, 30, 100} \X {0, 30, 100} : b[1] <= b[2]}

\* lines 164-169 run on the table opt
clamp_pass(opt, min_duty, max_duty) ==
    /\ EnterWith("_prepare_profile", "", "", 0, <<opt, min_duty, max_duty>>)
    /\ ReturnValue("ok", prepare_profile_clamp(opt, min_duty, max_duty))
    /\ UNCHANGED <<dry_run, data_file, attached, open_ok, delivered>>

NextClamp ==
    /\ op = "__init__"
    /\ \E opt \in ClampTables, b \in ClampBounds : clamp_pass(opt, b[1], b[2])

SpecClamp == Init /\ [][NextClamp]_vars

----------------------------------------------------------------------------
(* A single set_speed_profile call on a freshly constructed driver: every  *)
(* channel with every profile of up to MaxProfileLen points, and the       *)
(* profiles of ProfileArgs                                                 *)

MaxProfileLen == 2

ProfilePoints == {20, 40, 60} \X {0 - 5, 20, 50, 120}

ProfilesWide ==
    ProfileArgs \cup UNION {[1..n -> ProfilePoints] : n \in 0..MaxProfileLen}

NextProfile ==
    \/ /\ op = "__init__"
       /\ \E ch \in Channels, p \in ProfilesWide : set_speed_profile(ch, p)
    \/ _begin_transaction
    \/ send_frame
    \/ _end_transaction_and_read

SpecProfile == Init /\ [][NextProfile]_vars

----------------------------------------------------------------------------
(* get_status calls on every response of StatusFrames: responses of 0, 1,  *)
(* 10, 26, 27 and 32 bytes in MaxMsgVariant + 1 variants, and the frame    *)
(* that reports 3000 rpm and 1000 rpm                                      *)

MaxMsgVariant == 9

\* msg with the byte at offset k replaced by b
With(msg, k, b) == [msg EXCEPT ![k + 1] = b]

ExampleFrame == With(With(With(With(Msg(32, 0), 0, 11), 1, 184), 8, 3), 9, 232)

StatusFrames ==
    {Msg(n, v) : n \in {0, 1, 10, 26, 27, 32}, v \in 0..MaxMsgVariant}
    \cup {ExampleFrame}

NextStatus ==
    \/ get_status
    \/ _begin_transaction
    \/ _send_dummy_command
    \/ end_transaction_and_read(StatusFrames)

SpecStatus == Init /\ [][NextStatus]_vars

----------------------------------------------------------------------------
(* Properties *)

\* positions in the call log of the requests of one kind
Where(req) == {i \in DOMAIN calls : calls[i].req = req}

\* the requests of the call log, in order
Requests == [i \in DOMAIN calls |-> calls[i].req]

IOOps == {"get_status", "set_fixed_speed", "set_speed_profile", "set_color"}

\* C1 as stated: a connect whose first open fails and whose second open would
\* succeed returns normally, having issued exactly open, close, open.
C1_ConnectRetrySucceeds ==
    (op = "connect" /\ pc = "done" /\ open_ok = <<FALSE, TRUE>>)
        => (result = "ok" /\ Requests = <<"open", "close", "open">>)

\* C1 amended: a connect whose first open fails, whose close request succeeds
\* and whose second open would succeed returns normally, having issued exactly
\* one close request, after the failed open and before the retried open.
C1_ConnectRetrySucceedsIfCloseDoes ==
    (/\ op = "connect" /\ pc = "done" /\ open_ok = <<FALSE, TRUE>>
     /\ \A i \in Where("close") : calls[i].ok)
        => (/\ result = "ok"
            /\ calls = <<Call("open", <<>>, FALSE), Call("close", <<>>, TRUE),
                         Call("open", <<>>, TRUE)>>)

C1_Witness ==
    /\ op = "connect" /\ pc = "done" /\ open_ok = <<FALSE, TRUE>>
    /\ result = "ok"
    /\ Requests = <<"open", "close", "open">>

\* C2: connect issues at most two open requests and at most one close
\* request, and a failed second open is the last call of the connect, which
\* then raises the transport error.
C2_ConnectBounded ==
    op = "connect" =>
        /\ Cardinality(Where("open")) <= 2
        /\ Cardinality(Where("close")) <= 1
        /\ \A i \in Where("open") :
              (i > 1 /\ ~calls[i].ok) =>
                  (i = Len(calls) /\ pc = "done" /\ result = "USBError")

C2_Witness ==
    /\ op = "connect" /\ pc = "done" /\ result = "USBError"
    /\ calls = <<Call("open", <<>>, FALSE), Call("close", <<>>, TRUE),
                 Call("open", <<>>, FALSE)>>

\* C3: in a get_status call, whatever dry_run is, every read is preceded in
\* the same call by a flush request and, after it, a write to the device.
C3_ReadOnlyAfterFlushAndWrite ==
    op = "get_status" =>
        \A i \in Where("read") :
            \E j \in Where("flush"), k \in Where("write") : j < k /\ k < i

\* C4: the frame get_status writes is the lighting frame the device last
\* received from set_color (the default frame if it received none).
C4_DummyIsLastDelivered ==
    op = "get_status" =>
        \A i \in Where("write") : calls[i].data = delivered

\* C5: disconnect always issues the close request, always releases the
\* transport and never raises.
C5_DisconnectAlwaysReleases ==
    (op = "disconnect" /\ pc = "done") =>
        (Requests = <<"close">> /\ ~attached /\ result = "ok")

\* C6: set_fixed_speed on fan, pump or sync whose writes succeed and whose
\* final read fails returns normally.
C6_ReadFailureIgnored ==
    (/\ op = "set_fixed_speed" /\ channel \in {"fan", "pump", "sync"}
     /\ pc = "done"
     /\ \A i \in Where("write") : calls[i].ok
     /\ \E i \in Where("read") : ~calls[i].ok)
        => result = "ok"

\* C7: in every I/O operation a failed write is the last transport call of
\* the operation (no retry, no further write, no read) and the operation
\* raises the transport error.
C7_WriteFailureIsFinal ==
    op \in IOOps =>
        \A i \in Where("write") :
            ~calls[i].ok =>
                (i = Len(calls) /\ pc = "done" /\ result = "USBError")

C7_Witness ==
    /\ op = "set_fixed_speed" /\ channel = "sync" /\ ~dry_run
    /\ pc = "done" /\ result = "USBError"
    /\ Requests = <<"flush", "write">>
    /\ calls[2].data[1] = 19

\* the operation in progress was called with an argument the driver rejects
C8_Rejected ==
    \/ op = "set_color" /\ mode \notin {"fixed", "alternating", "blinking", "off"}
    \/ op = "set_speed_profile" /\ channel # "fan"
    \/ op = "set_fixed_speed" /\ channel \notin {"fan", "pump", "sync"}
    \/ result \in {"InvalidProfile", "ProfileTooLarge"}

\* C8: an operation called with an unsupported mode, a channel without a
\* variable speed entry, an unknown fixed speed channel or an invalid profile
\* is rejected with no transport call made, and the step that rejects it
\* leaves the persisted lighting frame as it was.
C8_RejectedBeforeTransport ==
    /\ [](C8_Rejected =>
            (pc = "done" /\ result \in CallerErrors /\ calls = <<>>))
    /\ [][C8_Rejected' => data_file' = data_file]_vars

C8_Witness ==
    /\ op = "set_color" /\ mode = "rainbow"
    /\ result = "NotImplementedError" /\ calls = <<>>
    /\ data_file # DEFAULT_COLOR_STATE

\* C9: while dry_run is set no frame is written to the transport and no
\* step changes the persisted lighting frame.
C9_DryRunHasNoEffect ==
    /\ [](dry_run => Where("write") = {})
    /\ [][dry_run => data_file' = data_file]_vars

\* x clipped into lo..hi, and the frame a single channel call must write
ClipTo(lo, hi, x) == IF x < lo THEN lo ELSE IF x > hi THEN hi ELSE x

C10_Expected == <<IF channel = "fan" THEN 18 ELSE 19, ClipTo(30, 100, speed)>>

\* C10: set_fixed_speed on fan or pump passes to _write exactly the frame
\* [message type, speed clipped into 30..100], message type 0x12 for fan and
\* 0x13 for pump; fan 10 gives duty 30 and fan 150 gives duty 100.
C10_FixedSpeedFrame ==
    (op = "set_fixed_speed" /\ channel \in {"fan", "pump"}) =>
        /\ \A i \in DOMAIN out : out[i] = C10_Expected
        /\ \A i \in Where("write") : calls[i].data = C10_Expected
        /\ Cardinality(Where("write")) + Len(out) <= 1
        /\ pc \in {"begin", "write"} => Len(out) = 1
        /\ (channel = "fan" /\ speed = 10) => \A i \in DOMAIN out : out[i] = <<18, 30>>
        /\ (channel = "fan" /\ speed = 150) => \A i \in DOMAIN out : out[i] = <<18, 100>>

C10_Witness ==
    /\ op = "set_fixed_speed" /\ channel = "fan" /\ speed = 150
    /\ pc = "done" /\ result = "ok"
    /\ \E i \in Where("write") : calls[i].data = <<18, 100>> /\ calls[i].ok

----------------------------------------------------------------------------
(* Lighting frames: C11, C12, C13, C19 *)

\* set_color has persisted its frame
Persisted ==
    /\ op = "set_color"
    /\ pc \notin {"begin", "persist"}
    /\ \E i \in Where("flush") : calls[i].ok

\* the frames the set_color in progress has built, persisted or written
SetColorFrames ==
    {out[i] : i \in DOMAIN out}
    \cup {calls[i].data : i \in Where("write")}
    \cup (IF Persisted THEN {data_file} ELSE {})

\* the call was not rejected: a frame was built and the transaction begun
Accepted == pc # "done" \/ calls # <<>>

\* C11: set_color with mode 'off' and a speed it accepts is never rejected,
\* whatever colors is, and the frame it builds, persists and writes has 19
\* bytes, on_flag 0 and both color fields zero; the persisted frame is the
\* frame written.
C11_OffFrame ==
    (op = "set_color" /\ mode = "off" /\ args[2].kind # "none") =>
        /\ Accepted
        /\ pc = "write" => data_file = Head(out)
        /\ \A f \in SetColorFrames :
              /\ Len(f) = 19
              /\ f[14] = 0
              /\ \A i \in 2..7 : f[i] = 0

C11_Witness ==
    /\ op = "set_color" /\ mode = "off" /\ args[1] = <<RED, GREEN, BLUE>>
    /\ pc = "done" /\ result = "ok"
    /\ \E i \in Where("write") : calls[i].ok /\ calls[i].data = data_file
    /\ data_file # DEFAULT_COLOR_STATE

\* the speed byte the claim gives to a speed argument
C12_SpeedByte(spd) ==
    CASE spd.kind = "name" /\ spd.s = "fastest" -> 1
      [] spd.kind = "name" /\ spd.s = "faster"  -> 2
      [] spd.kind = "name" /\ spd.s = "normal"  -> 3
      [] spd.kind = "name" /\ spd.s = "slower"  -> 4
      [] spd.kind = "name" /\ spd.s = "slowest" -> 5
      [] spd.kind \in {"int", "numstr"} /\ spd.n \in 1..255 -> spd.n
      [] OTHER -> 1

\* C12: set_color never fails because of its speed argument (a call with a
\* supported mode and at least one color, or mode 'off', is accepted
\* whatever speed is), and both speed bytes of its frame are the byte the
\* claim gives: the named level, the integer in 1..255, otherwise 1.
C12_SpeedNeverRejected ==
    (/\ op = "set_color" /\ mode \in {"fixed", "alternating", "blinking", "off"}
     /\ (mode = "off" \/ Len(args[1]) > 0))
        => /\ Accepted
           /\ \A f \in SetColorFrames :
                 /\ f[12] = C12_SpeedByte(args[2])
                 /\ f[13] = f[12]
                 /\ f[12] \in 1..255

\* C13: set_color with a supported mode and a speed it accepts is accepted
\* with any number of colors, and its frame carries the first two colors,
\* with 00 00 00 for an absent one.
C13_AnyNumberOfColors ==
    (/\ op = "set_color" /\ mode \in {"fixed", "alternating", "blinking"}
     /\ args[2].kind # "none")
        => /\ Accepted
           /\ \A f \in SetColorFrames :
                 /\ SubSeq(f, 2, 4) =
                        IF Len(args[1]) >= 1 THEN args[1][1] ELSE <<0, 0, 0>>
                 /\ SubSeq(f, 5, 7) =
                        IF Len(args[1]) >= 2 THEN args[1][2] ELSE <<0, 0, 0>>

\* C19: every frame set_color builds, persists or writes has 19 bytes, starts
\* with 0x10, has ff 00 00 37 at offsets 7..10 and 01 00 01 at offsets 16..18,
\* on_flag 0 exactly for mode 'off', the alternating flag 1 exactly for
\* 'alternating', the blinking flag 1 exactly for 'blinking', and never both.
C19_FrameFlags ==
    op = "set_color" =>
        \A f \in SetColorFrames :
            /\ Len(f) = 19
            /\ f[1] = 16
            /\ SubSeq(f, 8, 11) = <<255, 0, 0, 55>>
            /\ SubSeq(f, 17, 19) = <<1, 0, 1>>
            /\ f[14] \in {0, 1} /\ (f[14] = 0) = (mode = "off")
            /\ f[15] \in {0, 1} /\ (f[15] = 1) = (mode = "alternating")
            /\ f[16] \in {0, 1} /\ (f[16] = 1) = (mode = "blinking")
            /\ ~(f[15] = 1 /\ f[16] = 1)

C19_Witness ==
    /\ op = "set_color" /\ mode = "blinking"
    /\ pc = "done" /\ result = "ok"
    /\ \E i \in Where("write") :
          calls[i].ok /\ calls[i].data[16] = 1 /\ calls[i].data = data_file

----------------------------------------------------------------------------
(* Profiles: C14, C15, C16 *)

\* C14: the clamp pass never fails; its result has the points of its input
\* in the same order with the same temperatures, every duty of the result
\* lies in min_duty..max_duty, and a duty already in that range is unchanged.
C14_ClampPass ==
    op = "_prepare_profile" =>
        LET opt == args[1]
            lo == args[2]
            hi == args[3]
        IN  /\ result = "ok"
            /\ Len(ret) = Len(opt)
            /\ \A i \in DOMAIN opt :
                  /\ ret[i][1] = opt[i][1]
                  /\ ret[i][2] >= lo /\ ret[i][2] <= hi
                  /\ (opt[i][2] >= lo /\ opt[i][2] <= hi) => ret[i][2] = opt[i][2]

C14_Witness ==
    /\ op = "_prepare_profile"
    /\ args = << <<<<20, 0>>, <<60, 250>>>>, 30, 100 >>
    /\ ret = <<<<20, 30>>, <<60, 100>>>>

\* the frames the set_speed_profile in progress has built or written
ProfileFrames ==
    {out[i] : i \in DOMAIN out} \cup {calls[i].data : i \in Where("write")}

\* the profile _prepare_profile makes of the profile argument for the fan
Prepared == _prepare_profile(args, 30, 100)

C16_ProfileFrameRoundTrip ==
    (op = "set_speed_profile" /\ channel = "fan") =>
        \A f \in ProfileFrames :
            /\ Len(f) = 14
            /\ f[1] = 17 /\ f[2] = 0
            /\ [i \in 1..6 |-> <<f[2 + i], f[8 + i]>>] = Prepared.val

C16_Witness ==
    /\ op = "set_speed_profile" /\ channel = "fan"
    /\ args = <<<<20, 20>>, <<40, 50>>>>
    /\ pc = "done" /\ result = "ok"
    /\ \E i \in Where("write") :
          /\ calls[i].ok
          /\ calls[i].data =
                <<17, 0, 20, 40, 60, 60, 60, 60, 30, 50, 100, 100, 100, 100>>

----------------------------------------------------------------------------
(* Status report: C17 *)

\* C17: a get_status that has read a response of at least 27 bytes returns
\* fan speed msg[0] * 256 + msg[1], pump speed msg[8] * 256 + msg[9] (both in
\* 0..65535), the temperature msg[10] and msg[14] tenths, and the firmware
\* version msg[0x17..0x1a]; one that has read fewer than 27 bytes raises an
\* error and returns no report.
C17_StatusDecoding ==
    op = "get_status" =>
        \A i \in Where("read") :
            calls[i].ok =>
                LET msg == calls[i].data
                IN  IF Len(msg) < 27
                    THEN result \notin {"ok", "none"} /\ ret = <<>>
                    ELSE /\ result = "ok"
                         /\ Len(ret) = 4
                         /\ ret[1] = <<"Liquid temperature",
                                       10 * msg[11] + msg[15], "C">>
                         /\ ret[2] = <<"Fan speed", msg[1] * 256 + msg[2], "rpm">>
                         /\ ret[3] = <<"Pump speed", msg[9] * 256 + msg[10], "rpm">>
                         /\ ret[4] = <<"Firmware version",
                                       <<msg[24], msg[25], msg[26], msg[27]>>, "">>
                         /\ ret[2][2] \in 0..65535 /\ ret[3][2] \in 0..65535
                         /\ (msg[1] = 11 /\ msg[2] = 184) => ret[2][2] = 3000
                         /\ (msg[9] = 3 /\ msg[10] = 232) => ret[3][2] = 1000

C17_Witness ==
    /\ op = "get_status" /\ pc = "done" /\ result = "ok"
    /\ \E i \in Where("read") : calls[i].data = ExampleFrame
    /\ ret[2][2] = 3000 /\ ret[3][2] = 1000

C17_WitnessShort ==
    /\ op = "get_status" /\ pc = "done" /\ result = "IndexError"
    /\ \E i \in Where("read") : calls[i].ok /\ Len(calls[i].data) = 26

----------------------------------------------------------------------------
(* Transactions and the persisted frame: C18, C20 *)

\* whether s is a prefix of t
IsPrefix(s, t) == Len(s) <= Len(t) /\ s = SubSeq(t, 1, Len(s))

\* the transport calls of a complete transaction of the operation in progress
C18_Shape ==
    <<"flush">>
    \o (IF op = "set_fixed_speed" /\ channel = "sync"
        THEN <<"write", "write">> ELSE <<"write">>)
    \o <<"read", "release">>

\* C18: the transport calls of an I/O operation are a flush request, then
\* its write (for 'sync' the pump frame, then the fan frame, with the same
\* duty), then a read and, if the read succeeded, a release; the operation
\* stops at the first call that fails, and is complete once it returned
\* normally after a successful read.
C18_TransactionShape ==
    (op \in IOOps /\ Accepted) =>
        /\ IsPrefix(Requests, C18_Shape)
        /\ \A i \in DOMAIN calls : ~calls[i].ok => i = Len(calls)
        /\ (op = "set_fixed_speed" /\ channel = "sync" /\ Len(calls) >= 3) =>
              /\ calls[2].data[1] = 19
              /\ calls[3].data[1] = 18
              /\ calls[3].data[2] = calls[2].data[2]

\* C20: no step of get_status, set_fixed_speed, set_speed_profile, connect or
\* disconnect changes the persisted lighting frame, and the frame get_status
\* writes is the persisted frame.
C20_OnlySetColorPersists ==
    /\ [][op' \in {"get_status", "set_fixed_speed", "set_speed_profile",
                   "connect", "disconnect"} => data_file' = data_file]_vars
    /\ [](op = "get_status" =>
            \A i \in Where("write") : calls[i].data = data_file)

C20_Witness ==
    /\ op = "get_status" /\ pc = "done" /\ result = "ok"
    /\ data_file # DEFAULT_COLOR_STATE
    /\ \E i \in Where("write") : calls[i].ok /\ calls[i].data = data_file

====
